---- MODULE Spec2Model ----
(***************************************************************************)
(* A model of bot.py: the Telegram handlers of the Gemini bot, the trivia  *)
(* store game_state they share, and the calls they make to the two         *)
(* collaborators (message.reply_text: the Responder; model.generate_content*)
(* : the Generator).                                                       *)
(*                                                                         *)
(* Text is a sequence of one-character strings, so that lower(), strip(),  *)
(* ' '.join(), "in" and replace() are computed as Python computes them.    *)
(* A text the program never inspects (a catalog question, an error         *)
(* description) is a one-element sequence holding the whole text.  The     *)
(* characters are those up to U+00FF, which a TLA+ string can hold; the    *)
(* emoji of the reply literals, beyond them, are left out of the format    *)
(* names.                                                                  *)
(*                                                                         *)
(* One action handles one update from start to end, as the Application     *)
(* built in main() does (updates are processed one after the other).  The  *)
(* update and the record of what its handler did are kept until the        *)
(* Application takes the next update (NextUpdate).                         *)
(*                                                                         *)
(* Spec is that model.  SpecSteps takes the same handlers from one await   *)
(* to the next, to see which of them can be under way together;            *)
(* SpecQuestions follows the questions one conversation is sent by trivia. *)
(***************************************************************************)
EXTENDS Naturals, Sequences, FiniteSets, TLC

VARIABLES
    pc,           \* where the process is: "start", "exited", "polling", or "handled"
    env,          \* which of the two secrets the environment holds
    game_state,   \* bot.py:31  chat_id -> dict, the dict has at most the key trivia_answer
    last,         \* the update being handled, with the values drawn while handling it
    calls,        \* the collaborator calls its handler made, in order
    error,        \* the exception that left the handler (what error_handler got), or NoError
    logged,       \* what main wrote to the log
    running,      \* the handlers begun and not yet returned, each where it awaits
    watched,      \* the conversation whose questions are recorded
    asked,        \* the question last given to reply_text for it, <<>> before the first
    shown         \* the question reply_text last delivered to it, <<>> before the first

\* what a handler run in one step leaves alone
inflight == <<running, watched, asked, shown>>
vars == <<pc, env, game_state, last, calls, error, logged, inflight>>

----------------------------------------------------------------------------
(* Bounds of the model. *)

NumChats == 2      \* chat ids 1..NumChats
MaxArgs == 1       \* words after a command
MaxPieces == 1     \* pieces a group message is made of

----------------------------------------------------------------------------
(* Python str operations. *)

\* the characters up to U+00FF that str.lower() changes, and what it makes of
\* them: the letters A-Z, and U+00C0-U+00DE without the multiplication sign
UpperCase == <<"A","B","C","D","E","F","G","H","I","J","K","L","M",
               "N","O","P","Q","R","S","T","U","V","W","X","Y","Z",
               "À","Á","Â","Ã","Ä","Å","Æ","Ç","È","É","Ê","Ë","Ì","Í","Î",
               "Ï","Ð","Ñ","Ò","Ó","Ô","Õ","Ö","Ø","Ù","Ú","Û","Ü","Ý","Þ">>
LowerCase == <<"a","b","c","d","e","f","g","h","i","j","k","l","m",
               "n","o","p","q","r","s","t","u","v","w","x","y","z",
               "à","á","â","ã","ä","å","æ","ç","è","é","ê","ë","ì","í","î",
               "ï","ð","ñ","ò","ó","ô","õ","ö","ø","ù","ú","û","ü","ý","þ">>

\* the characters up to U+00FF that str.strip() takes off: space, tab, line
\* feed, carriage return, form feed, then U+000B, U+001C-U+001F, U+0085, U+00A0
Whitespace == {" ", "\t", "\n", "\r", "\f",
               "", "", "", "", "", "", " "}

LowerChar(ch) ==
    IF \E i \in 1..Len(UpperCase) : UpperCase[i] = ch
    THEN LowerCase[CHOOSE i \in 1..Len(UpperCase) : UpperCase[i] = ch]
    ELSE ch

\* str.lower()
Lower(s) == [i \in 1..Len(s) |-> LowerChar(s[i])]

RECURSIVE LStrip(_)
LStrip(s) ==
    IF s = <<>> THEN s
    ELSE IF Head(s) \in Whitespace THEN LStrip(Tail(s)) ELSE s

RECURSIVE RStrip(_)
RStrip(s) ==
    IF s = <<>> THEN s
    ELSE IF s[Len(s)] \in Whitespace THEN RStrip(SubSeq(s, 1, Len(s) - 1)) ELSE s

\* str.strip()
Strip(s) == RStrip(LStrip(s))

\* ' '.join(args)
RECURSIVE Join(_)
Join(args) ==
    IF args = <<>> THEN <<>>
    ELSE IF Len(args) = 1 THEN args[1]
    ELSE args[1] \o <<" ">> \o Join(Tail(args))

\* sub in s
Contains(s, sub) ==
    \E i \in 1..(Len(s) + 1) :
        /\ i + Len(sub) - 1 <= Len(s)
        /\ SubSeq(s, i, i + Len(sub) - 1) = sub

\* s.replace(sub, ""), sub not empty: the occurrences found scanning left to right
RECURSIVE Remove(_, _)
Remove(s, sub) ==
    IF Len(s) < Len(sub) THEN s
    ELSE IF SubSeq(s, 1, Len(sub)) = sub
         THEN Remove(SubSeq(s, Len(sub) + 1, Len(s)), sub)
         ELSE <<Head(s)>> \o Remove(Tail(s), sub)

----------------------------------------------------------------------------
(* The trivia catalog, bot.py:185-194. *)

questions == <<
    [q |-> <<"What is the capital of France?">>, a |-> <<"P","a","r","i","s">>],
    [q |-> <<"What is 2 + 2?">>, a |-> <<"4">>],
    [q |-> <<"What is the largest planet in our solar system?">>,
     a |-> <<"J","u","p","i","t","e","r">>],
    [q |-> <<"Who painted the Mona Lisa?">>,
     a |-> <<"L","e","o","n","a","r","d","o"," ","d","a"," ","V","i","n","c","i">>],
    [q |-> <<"What is the smallest prime number?">>, a |-> <<"2">>],
    [q |-> <<"In what year did World War II end?">>, a |-> <<"1","9","4","5">>],
    [q |-> <<"What is the chemical symbol for gold?">>, a |-> <<"A","u">>],
    [q |-> <<"How many continents are there?">>, a |-> <<"7">>] >>

----------------------------------------------------------------------------
(* The inputs of the handlers. *)

Chats == 1..NumChats

\* update.effective_chat.type: chat 1 is a private chat, the others are groups
ChatType(c) == IF c = 1 THEN "private" ELSE "group"

\* context.args: the words of the message after the command (no whitespace in a word)
Tokens == { <<"A","u">>, <<"a","U">> }
SampleArgs == {
    << <<"P","A","R","I","S">> >>,
    << <<"l","e","o","n","a","r","d","o">>, <<"D","A">>, <<"v","i","n","c","i">> >>,
    << <<"J","u","p","i","t","e","r">>, <<"4">>, <<"7">> >> }
ArgLists == (UNION {[1..n -> Tokens] : n \in 0..MaxArgs}) \cup SampleArgs

\* context.bot.username, and the mention f"@{bot_username}"
bot_username == <<"b","o","t">>
Handle == <<"@">> \o bot_username

\* message.text of a group message: not empty (filters.TEXT)
RECURSIVE Flatten(_)
Flatten(ps) == IF ps = <<>> THEN <<>> ELSE Head(ps) \o Flatten(Tail(ps))

TextPieces == { Handle, <<" ">>, <<"h","e","l","l","o">> }
SampleTexts == {
    <<"@","b","o","t"," ","h","e","l","l","o">>,
    <<" ","h","e","l","l","o"," ","@","b","o","t"," ">>,
    <<"h","i","@","b","o","t","@","b","o","t","!">>,
    <<"@","b","@","b","o","t","o","t">>,
    <<"@","B","o","t"," ","h","i">>,
    <<" ","@","b","o","t"," ","@","b","o","t","">> }
Texts == {Flatten(ps) : ps \in UNION {[1..n -> TextPieces] : n \in 1..MaxPieces}}
             \cup SampleTexts

\* what model.generate_content(prompt) and response.text come to: a text, or an
\* exception whose str() is text
GenOutcomes == {
    [ok |-> TRUE, text |-> <<"4","2">>],
    [ok |-> TRUE, text |-> <<" ","H","i"," ","@","b","o","t","\n">>],
    [ok |-> FALSE, text |-> <<"429 Resource has been exhausted">>] }
NoGen == [ok |-> TRUE, text |-> <<>>]

ResponderError == <<"Timed out">>      \* str(e) of a reply_text that raised
NoError == "none"

----------------------------------------------------------------------------
(* The collaborator calls. *)

\* await message.reply_text(f"{fmt}{arg}"); ok is FALSE when the call raises
Reply(fmt, arg, ok) == [op |-> "reply_text", fmt |-> fmt, arg |-> arg, ok |-> ok]

\* model.generate_content(prompt) and response.text; ok is FALSE when one of them raises
Generate(prompt, ok) == [op |-> "generate_content", fmt |-> "", arg |-> prompt, ok |-> ok]

Replies(cs) == SelectSeq(cs, LAMBDA c : c.op = "reply_text")
Generations(cs) == SelectSeq(cs, LAMBDA c : c.op = "generate_content")

\* the reply literals of trivia
TriviaCorrect == "Correct! Well done!"
TriviaWrong == "Wrong! The correct answer was: "
TriviaAnother == "Type /trivia for another question!"
TriviaQuestion == "Trivia Question:\n\n{q}\n\nReply with: /trivia [your answer]"

\* the reply literals of ask_gemini and handle_group_message
AskUsage == "Please provide a question! Example: /ask What is Python?"
AskThinking == "Thinking..."
AskError == "Error: "
GroupCanned == "Yes? How can I help you?"
GroupError == "Sorry, I encountered an error: "
Verbatim == ""        \* reply_text(response.text)

\* the reply_text calls of cs that raised, by their position among the reply_text calls
Raised(cs) == {i \in 1..Len(Replies(cs)) : ~Replies(cs)[i].ok}

NoUpdate ==
    [handler |-> "none", command |-> "", chat |-> 0, args |-> <<>>, text |-> <<>>,
     reply_to_bot |-> FALSE, drawn |-> 0, gen |-> NoGen,
     down |-> {}, path |-> "none", store0 |-> <<>>]

\* the fields every handler's record starts from; store0 is game_state as the
\* handler found it
Update(handler, c, path) ==
    [NoUpdate EXCEPT !.handler = handler, !.chat = c, !.path = path,
                     !.store0 = game_state]

----------------------------------------------------------------------------
(* The handlers main registers, bot.py:241-257, and the update each one takes. *)

\* what an update is: one of the commands, a command nobody registered, or text
\* that is no command
FreeText == ""
Incoming == {"start", "help", "ask", "dice", "flip", "8ball", "rps", "trivia",
             "foo", FreeText}

\* filters.ChatType.GROUPS
GroupTypes == {"group", "supergroup"}

\* bot.py:242-257 in the order of registration
handlers == <<
    [kind |-> "command", command |-> "start", callback |-> "start"],
    [kind |-> "command", command |-> "help", callback |-> "help"],
    [kind |-> "command", command |-> "ask", callback |-> "ask"],
    [kind |-> "command", command |-> "dice", callback |-> "dice"],
    [kind |-> "command", command |-> "flip", callback |-> "flip"],
    [kind |-> "command", command |-> "8ball", callback |-> "8ball"],
    [kind |-> "command", command |-> "rps", callback |-> "rps"],
    [kind |-> "command", command |-> "trivia", callback |-> "trivia"],
    [kind |-> "message", command |-> FreeText, callback |-> "group"] >>

\* the MessageHandler without filters.ChatType.GROUPS
MatchesAnyChat(h, cmd, c) ==
    IF h.kind = "command" THEN cmd = h.command ELSE cmd = FreeText

\* CommandHandler(name, ...) takes the command of that name; the MessageHandler
\* of bot.py:252-257 takes filters.TEXT & ~filters.COMMAND & filters.ChatType.GROUPS
Matches(h, cmd, c) ==
    IF h.kind = "command"
    THEN cmd = h.command
    ELSE cmd = FreeText /\ ChatType(c) \in GroupTypes

\* the callback an update goes to: that of the first handler registered that
\* takes it, "none" when no handler does
Route(cmd, c) ==
    LET taking == {i \in 1..Len(handlers) : Matches(handlers[i], cmd, c)} IN
    IF taking = {} THEN "none"
    ELSE handlers[CHOOSE i \in taking : \A j \in taking : i <= j].callback

\* a handler whose only call is one reply_text
OneReply(fmt, arg, down) ==
    [calls |-> <<Reply(fmt, arg, 1 \notin down)>>,
     error |-> IF 1 \in down THEN "TelegramError" ELSE NoError]

----------------------------------------------------------------------------
(* trivia, bot.py:183-220. *)

\* bot.py:199  chat_id in game_state and 'trivia_answer' in game_state[chat_id]
Pending(store, c) == c \in DOMAIN store /\ "trivia_answer" \in DOMAIN store[c]

\* the comparison without lower(): "PARIS" no longer matches "Paris"
AnswerMatchesExact(user_answer, correct_answer) == user_answer = correct_answer

\* bot.py:204  user_answer.lower() == correct_answer.lower()
AnswerMatches(user_answer, correct_answer) == Lower(user_answer) = Lower(correct_answer)

\* the del left out: the answered question stays pending
DelAnswerForgotten(store, c) == store

\* bot.py:209  del game_state[chat_id]['trivia_answer']
DelAnswer(store, c) == [store EXCEPT ![c] = <<>>]

\* the whole store assigned instead of one entry: the other chats' sessions go
SetAnswerAlone(store, c, a) == [d \in {c} |-> [trivia_answer |-> a]]

\* setdefault instead of assignment: a pending answer survives a new question
SetAnswerKeepFirst(store, c, a) ==
    [d \in DOMAIN store \cup {c} |->
        IF d = c /\ ~Pending(store, c) THEN [trivia_answer |-> a] ELSE store[d]]

\* bot.py:215  game_state[chat_id] = {'trivia_answer': question_data['a']}
SetAnswer(store, c, a) ==
    [d \in DOMAIN store \cup {c} |-> IF d = c THEN [trivia_answer |-> a] ELSE store[d]]

\* bot.py:200-211, the branch taken when a question is pending and args is not empty
SubmitAnswer(store, c, args, down) ==
    LET user_answer == Strip(Join(args))
        correct_answer == store[c].trivia_answer
        verdict(ok) == IF AnswerMatches(user_answer, correct_answer)
                       THEN Reply(TriviaCorrect, <<>>, ok)
                       ELSE Reply(TriviaWrong, correct_answer, ok)
    IN  IF 1 \in down
        THEN [store |-> store, calls |-> <<verdict(FALSE)>>, error |-> "TelegramError"]
        ELSE [store |-> DelAnswer(store, c),
              calls |-> <<verdict(TRUE), Reply(TriviaAnother, <<>>, 2 \notin down)>>,
              error |-> IF 2 \in down THEN "TelegramError" ELSE NoError]

\* the question is sent but its answer is not stored
RequestQuestionNotStored(store, c, i, down) ==
    [store |-> store,
     calls |-> <<Reply(TriviaQuestion, questions[i].q, 1 \notin down)>>,
     error |-> IF 1 \in down THEN "TelegramError" ELSE NoError]

\* the answer stored is that of the catalog's next entry
RequestQuestionMispaired(store, c, i, down) ==
    [store |-> SetAnswer(store, c, questions[(i % Len(questions)) + 1].a),
     calls |-> <<Reply(TriviaQuestion, questions[i].q, 1 \notin down)>>,
     error |-> IF 1 \in down THEN "TelegramError" ELSE NoError]

\* bot.py:213-220, the new question
RequestQuestion(store, c, i, down) ==
    [store |-> SetAnswer(store, c, questions[i].a),
     calls |-> <<Reply(TriviaQuestion, questions[i].q, 1 \notin down)>>,
     error |-> IF 1 \in down THEN "TelegramError" ELSE NoError]

\* bot.py:199-200, which of the two branches a /trivia update takes
AnswerPath(store, c, args) == Pending(store, c) /\ args # <<>>

Trivia ==
    /\ pc = "polling"
    /\ pc' = "handled"
    /\ UNCHANGED <<env, logged, inflight>>
    /\ \E cmd \in Incoming, c \in Chats, args \in ArgLists :
        /\ Route(cmd, c) = "trivia"
        /\ IF AnswerPath(game_state, c, args)
           THEN \E down \in {{}, {1}, {2}} :
                   LET r == SubmitAnswer(game_state, c, args, down) IN
                   /\ game_state' = r.store
                   /\ calls' = r.calls
                   /\ error' = r.error
                   /\ last' = [Update("trivia", c, "answer") EXCEPT
                                   !.command = cmd, !.args = args, !.down = down]
           ELSE \E i \in 1..Len(questions), down \in {{}, {1}} :
                   LET r == RequestQuestion(game_state, c, i, down) IN
                   /\ game_state' = r.store
                   /\ calls' = r.calls
                   /\ error' = r.error
                   /\ last' = [Update("trivia", c, "question") EXCEPT
                                   !.command = cmd, !.args = args, !.drawn = i,
                                   !.down = down]

----------------------------------------------------------------------------
(* ask_gemini, bot.py:68-82. *)

\* the try block without its except clause: a Generator failure leaves the handler
GenerateAndRelayUncaught(prompt, gen, down, sent, errfmt) ==
    IF gen.ok
    THEN [calls |-> <<Generate(prompt, TRUE),
                      Reply(Verbatim, gen.text, (sent + 1) \notin down)>>,
          error |-> IF (sent + 1) \in down THEN "TelegramError" ELSE NoError]
    ELSE [calls |-> <<Generate(prompt, FALSE)>>, error |-> "GeneratorError"]

\* an except clause that asks the Generator once more before it reports
GenerateAndRelayRetry(prompt, gen, down, sent, errfmt) ==
    IF gen.ok
    THEN IF (sent + 1) \in down
         THEN [calls |-> <<Generate(prompt, TRUE), Reply(Verbatim, gen.text, FALSE),
                           Reply(errfmt, ResponderError, (sent + 2) \notin down)>>,
               error |-> IF (sent + 2) \in down THEN "TelegramError" ELSE NoError]
         ELSE [calls |-> <<Generate(prompt, TRUE), Reply(Verbatim, gen.text, TRUE)>>,
               error |-> NoError]
    ELSE [calls |-> <<Generate(prompt, FALSE), Generate(prompt, FALSE),
                      Reply(errfmt, gen.text, (sent + 1) \notin down)>>,
          error |-> IF (sent + 1) \in down THEN "TelegramError" ELSE NoError]

\* bot.py:77-82: the try block and its except clause.  sent is the number of
\* reply_text calls made before it; errfmt is the literal of the except clause.
\* A reply_text that raises inside the try block is caught by the same clause.
GenerateAndRelay(prompt, gen, down, sent, errfmt) ==
    IF gen.ok
    THEN IF (sent + 1) \in down
         THEN [calls |-> <<Generate(prompt, TRUE), Reply(Verbatim, gen.text, FALSE),
                           Reply(errfmt, ResponderError, (sent + 2) \notin down)>>,
               error |-> IF (sent + 2) \in down THEN "TelegramError" ELSE NoError]
         ELSE [calls |-> <<Generate(prompt, TRUE), Reply(Verbatim, gen.text, TRUE)>>,
               error |-> NoError]
    ELSE [calls |-> <<Generate(prompt, FALSE), Reply(errfmt, gen.text, (sent + 1) \notin down)>>,
          error |-> IF (sent + 1) \in down THEN "TelegramError" ELSE NoError]

\* the check of context.args left out: the Generator gets an empty question
ask_gemini_unchecked(args, gen, down) ==
    IF 1 \in down
    THEN [calls |-> <<Reply(AskThinking, <<>>, FALSE)>>, error |-> "TelegramError"]
    ELSE LET r == GenerateAndRelay(Join(args), gen, down, 1, AskError) IN
         [calls |-> <<Reply(AskThinking, <<>>, TRUE)>> \o r.calls, error |-> r.error]

ask_gemini(args, gen, down) ==
    IF args = <<>>
    THEN [calls |-> <<Reply(AskUsage, <<>>, 1 \notin down)>>,
          error |-> IF 1 \in down THEN "TelegramError" ELSE NoError]
    ELSE LET question == Join(args) IN
         IF 1 \in down
         THEN [calls |-> <<Reply(AskThinking, <<>>, FALSE)>>, error |-> "TelegramError"]
         ELSE LET r == GenerateAndRelay(question, gen, down, 1, AskError) IN
              [calls |-> <<Reply(AskThinking, <<>>, TRUE)>> \o r.calls, error |-> r.error]

\* the inputs that differ only in an outcome the handler never asks for are one input
Canonical(r, gen, down) ==
    /\ down = Raised(r.calls)
    /\ (Generations(r.calls) = <<>>) => (gen = NoGen)

AskGemini ==
    /\ pc = "polling"
    /\ pc' = "handled"
    /\ UNCHANGED <<env, game_state, logged, inflight>>
    /\ \E cmd \in Incoming, c \in Chats, args \in ArgLists,
          gen \in GenOutcomes \cup {NoGen}, down \in SUBSET {1, 2, 3} :
        LET r == ask_gemini(args, gen, down) IN
        /\ Route(cmd, c) = "ask"
        /\ Canonical(r, gen, down)
        /\ calls' = r.calls
        /\ error' = r.error
        /\ last' = [Update("ask", c, IF args = <<>> THEN "usage" ELSE "question") EXCEPT
                        !.command = cmd, !.args = args, !.gen = gen, !.down = down]

----------------------------------------------------------------------------
(* handle_group_message, bot.py:85-112. *)

\* any mention counts as a mention of the bot
is_mentioned_any(text) == Contains(text, <<"@">>)

\* bot.py:91  f"@{bot_username}" in message.text
is_mentioned(text) == Contains(text, Handle)

\* the strip() left out
ExtractTextUnstripped(text) == Remove(text, Handle)

\* bot.py:101  message.text.replace(f"@{bot_username}", "").strip()
ExtractText(text) == Strip(Remove(text, Handle))

\* the check for an empty text left out
handle_group_message_unchecked(text, is_reply_to_bot, gen, down) ==
    IF ~(is_mentioned(text) \/ is_reply_to_bot)
    THEN [calls |-> <<>>, error |-> NoError]
    ELSE GenerateAndRelay(Strip(Remove(text, Handle)), gen, down, 0, GroupError)

handle_group_message(text, is_reply_to_bot, gen, down) ==
    IF ~(is_mentioned(text) \/ is_reply_to_bot)
    THEN [calls |-> <<>>, error |-> NoError]
    ELSE LET t == ExtractText(text) IN
         IF t = <<>>
         THEN [calls |-> <<Reply(GroupCanned, <<>>, 1 \notin down)>>,
               error |-> IF 1 \in down THEN "TelegramError" ELSE NoError]
         ELSE GenerateAndRelay(t, gen, down, 0, GroupError)

\* bot.py:252-257: registered for text that is not a command, in group chats
HandleGroupMessage ==
    /\ pc = "polling"
    /\ pc' = "handled"
    /\ UNCHANGED <<env, game_state, logged, inflight>>
    /\ \E cmd \in Incoming, c \in Chats, text \in Texts, is_reply_to_bot \in BOOLEAN,
          gen \in GenOutcomes \cup {NoGen}, down \in SUBSET {1, 2} :
        LET r == handle_group_message(text, is_reply_to_bot, gen, down) IN
        /\ Route(cmd, c) = "group"
        /\ Canonical(r, gen, down)
        /\ calls' = r.calls
        /\ error' = r.error
        /\ last' = [Update("group", c,
                           IF r.calls = <<>> THEN "dropped"
                           ELSE IF Generations(r.calls) = <<>> THEN "canned"
                           ELSE "generate") EXCEPT
                        !.command = cmd, !.text = text,
                        !.reply_to_bot = is_reply_to_bot, !.gen = gen, !.down = down]

----------------------------------------------------------------------------
(* start and help_command, bot.py:34-65. *)

StartText == "Hello! I'm a Gemini-powered bot!\n\nCommands:\n..."
HelpText == "Available Commands:\n\n..."

start(down) == OneReply(StartText, <<>>, down)
help_command(down) == OneReply(HelpText, <<>>, down)

Start ==
    /\ pc = "polling"
    /\ pc' = "handled"
    /\ UNCHANGED <<env, game_state, logged, inflight>>
    /\ \E cmd \in Incoming, c \in Chats, down \in {{}, {1}} :
        LET r == start(down) IN
        /\ Route(cmd, c) = "start"
        /\ calls' = r.calls
        /\ error' = r.error
        /\ last' = [Update("start", c, "reply") EXCEPT !.command = cmd, !.down = down]

Help ==
    /\ pc = "polling"
    /\ pc' = "handled"
    /\ UNCHANGED <<env, game_state, logged, inflight>>
    /\ \E cmd \in Incoming, c \in Chats, down \in {{}, {1}} :
        LET r == help_command(down) IN
        /\ Route(cmd, c) = "help"
        /\ calls' = r.calls
        /\ error' = r.error
        /\ last' = [Update("help", c, "reply") EXCEPT !.command = cmd, !.down = down]

----------------------------------------------------------------------------
(* The mini-games, bot.py:115-180.  drawn is what random gave. *)

\* bot.py:117-119; the glyphs are named by their code points
dice_emoji == <<"U+2680", "U+2681", "U+2682", "U+2683", "U+2684", "U+2685">>
Decimal == <<"1", "2", "3", "4", "5", "6">>
DiceRolled == "You rolled: {dice_emoji} ({result})"

roll_dice(result, down) == OneReply(DiceRolled, <<dice_emoji[result], Decimal[result]>>, down)

RollDice ==
    /\ pc = "polling"
    /\ pc' = "handled"
    /\ UNCHANGED <<env, game_state, logged, inflight>>
    /\ \E cmd \in Incoming, c \in Chats, result \in 1..Len(dice_emoji), down \in {{}, {1}} :
        LET r == roll_dice(result, down) IN
        /\ Route(cmd, c) = "dice"
        /\ calls' = r.calls
        /\ error' = r.error
        /\ last' = [Update("dice", c, "reply") EXCEPT
                        !.command = cmd, !.drawn = result, !.down = down]

\* bot.py:124-126
coin_sides == <<"Heads", "Tails">>
CoinLanded == "{emoji} The coin landed on: **{result}**!"

flip_coin(i, down) ==
    LET result == coin_sides[i]
        emoji == IF result = "Heads" THEN "U+1FA99" ELSE "U+1F518"
    IN  OneReply(CoinLanded, <<emoji, result>>, down)

FlipCoin ==
    /\ pc = "polling"
    /\ pc' = "handled"
    /\ UNCHANGED <<env, game_state, logged, inflight>>
    /\ \E cmd \in Incoming, c \in Chats, i \in 1..Len(coin_sides), down \in {{}, {1}} :
        LET r == flip_coin(i, down) IN
        /\ Route(cmd, c) = "flip"
        /\ calls' = r.calls
        /\ error' = r.error
        /\ last' = [Update("flip", c, "reply") EXCEPT
                        !.command = cmd, !.drawn = i, !.down = down]

\* bot.py:131-146
responses == <<
    "Yes, definitely!", "It is certain.", "Without a doubt.",
    "You may rely on it.", "As I see it, yes.", "Most likely.",
    "Outlook good.", "Signs point to yes.", "Reply hazy, try again.",
    "Ask again later.", "Better not tell you now.", "Cannot predict now.",
    "Concentrate and ask again.", "Don't count on it.", "My reply is no.",
    "My sources say no.", "Outlook not so good.", "Very doubtful." >>
EightBallUsage == "Ask the magic 8-ball a yes/no question!\nExample: /8ball Will I win?"
EightBallSays == "The magic 8-ball says: **{result}**"

magic_8ball(args, i, down) ==
    IF args = <<>>
    THEN OneReply(EightBallUsage, <<>>, down)
    ELSE OneReply(EightBallSays, <<responses[i]>>, down)

\* the handler asks only whether there are words
EightBallArgs == {<<>>} \cup {a \in SampleArgs : Len(a) = 1}

Magic8Ball ==
    /\ pc = "polling"
    /\ pc' = "handled"
    /\ UNCHANGED <<env, game_state, logged, inflight>>
    /\ \E cmd \in Incoming, c \in Chats, args \in EightBallArgs,
          i \in 0..Len(responses), down \in {{}, {1}} :
        LET r == magic_8ball(args, i, down) IN
        /\ Route(cmd, c) = "8ball"
        /\ (i = 0) <=> (args = <<>>)
        /\ calls' = r.calls
        /\ error' = r.error
        /\ last' = [Update("8ball", c, IF args = <<>> THEN "usage" ELSE "reply") EXCEPT
                        !.command = cmd, !.args = args, !.drawn = i, !.down = down]

\* bot.py:150, 162
choices == << <<"r","o","c","k">>, <<"p","a","p","e","r">>,
              <<"s","c","i","s","s","o","r","s">> >>
choice_word == <<"rock", "paper", "scissors">>
emoji_map == <<"U+270A", "U+270B", "U+270C">>
RpsUsage == "Choose rock, paper, or scissors!\nExample: /rps rock"
RpsPlayed == "You chose: {emoji} {user_choice}\nI chose: {emoji} {bot_choice}\n\n{result}"
RpsTie == "It's a tie!"
RpsYouWin == "You win!"
RpsIWin == "I win!"

\* the position of a text in choices, 0 when it is none of them
ChoiceIndex(t) ==
    IF \E i \in 1..Len(choices) : choices[i] = t
    THEN CHOOSE i \in 1..Len(choices) : choices[i] = t
    ELSE 0

\* the winning pairs read the other way round
rps_result_reversed(user_choice, bot_choice) ==
    IF user_choice = bot_choice THEN RpsTie
    ELSE IF \/ (user_choice = "scissors" /\ bot_choice = "rock")
            \/ (user_choice = "rock" /\ bot_choice = "paper")
            \/ (user_choice = "paper" /\ bot_choice = "scissors")
         THEN RpsYouWin
         ELSE RpsIWin

\* bot.py:165-174
rps_result(user_choice, bot_choice) ==
    IF user_choice = bot_choice THEN RpsTie
    ELSE IF \/ (user_choice = "rock" /\ bot_choice = "scissors")
            \/ (user_choice = "paper" /\ bot_choice = "rock")
            \/ (user_choice = "scissors" /\ bot_choice = "paper")
         THEN RpsYouWin
         ELSE RpsIWin

\* bot.py:152  not context.args or context.args[0].lower() not in choices
RpsInvalid(args) == args = <<>> \/ ChoiceIndex(Lower(args[1])) = 0

rock_paper_scissors(args, b, down) ==
    IF RpsInvalid(args)
    THEN OneReply(RpsUsage, <<>>, down)
    ELSE LET u == ChoiceIndex(Lower(args[1]))
             user_choice == choice_word[u]
             bot_choice == choice_word[b]
         IN  OneReply(RpsPlayed,
                      <<emoji_map[u], user_choice, emoji_map[b], bot_choice,
                        rps_result(user_choice, bot_choice)>>, down)

RpsArgs == {
    <<>>,
    << <<"r","o","c","k">> >>,
    << <<"R","O","C","K">> >>,
    << <<"P","a","p","e","r">> >>,
    << <<"s","c","i","s","s","o","r","s">>, <<"r","o","c","k">> >>,
    << <<"l","i","z","a","r","d">> >>,
    << <<"r","o","c","k","s">> >> }

RockPaperScissors ==
    /\ pc = "polling"
    /\ pc' = "handled"
    /\ UNCHANGED <<env, game_state, logged, inflight>>
    /\ \E cmd \in Incoming, c \in Chats, args \in RpsArgs,
          b \in 0..Len(choices), down \in {{}, {1}} :
        LET r == rock_paper_scissors(args, b, down) IN
        /\ Route(cmd, c) = "rps"
        /\ (b = 0) <=> RpsInvalid(args)
        /\ calls' = r.calls
        /\ error' = r.error
        /\ last' = [Update("rps", c, IF RpsInvalid(args) THEN "usage" ELSE "played") EXCEPT
                        !.command = cmd, !.args = args, !.drawn = b, !.down = down]

----------------------------------------------------------------------------
(* An update no registered handler takes: nothing is called. *)

Unhandled ==
    /\ pc = "polling"
    /\ pc' = "handled"
    /\ UNCHANGED <<env, game_state, logged, inflight>>
    /\ \E cmd \in Incoming, c \in Chats, text \in Texts \cup {<<>>} :
        /\ Route(cmd, c) = "none"
        /\ (text = <<>>) <=> (cmd # FreeText)
        /\ calls' = <<>>
        /\ error' = NoError
        /\ last' = [Update("none", c, "dropped") EXCEPT !.command = cmd, !.text = text]

----------------------------------------------------------------------------
(* main, bot.py:228-264, and the Application's loop. *)

TokenMissing == "TELEGRAM_BOT_TOKEN not found in environment variables!"
KeyMissing == "GEMINI_API_KEY not found in environment variables!"
BotStarting == "Bot starting..."
NoConfigError == ""

\* a guard for the token alone
ConfigErrorTokenOnly(e) ==
    IF ~e.TELEGRAM_BOT_TOKEN THEN TokenMissing ELSE NoConfigError

\* bot.py:230-236: the message of the guard that stops main, if one does
ConfigError(e) ==
    IF ~e.TELEGRAM_BOT_TOKEN THEN TokenMissing
    ELSE IF ~e.GEMINI_API_KEY THEN KeyMissing
    ELSE NoConfigError

\* without both secrets main logs the error and returns; with them it registers
\* the handlers and polls
Main ==
    /\ pc = "start"
    /\ pc' = IF ConfigError(env) = NoConfigError THEN "polling" ELSE "exited"
    /\ logged' = IF ConfigError(env) = NoConfigError THEN BotStarting ELSE ConfigError(env)
    /\ UNCHANGED <<env, game_state, last, calls, error, inflight>>

\* bot.py:264 run_polling: the handling of one update is over, the next one is taken
NextUpdate ==
    /\ pc = "handled"
    /\ pc' = "polling"
    /\ last' = NoUpdate
    /\ calls' = <<>>
    /\ error' = NoError
    /\ UNCHANGED <<env, game_state, logged, inflight>>

Init ==
    /\ pc = "start"
    /\ env \in [{"TELEGRAM_BOT_TOKEN", "GEMINI_API_KEY"} -> BOOLEAN]
    /\ game_state = <<>>
    /\ last = NoUpdate
    /\ calls = <<>>
    /\ error = NoError
    /\ logged = ""
    /\ running = <<>>
    /\ watched = 0
    /\ asked = <<>>
    /\ shown = <<>>

Next ==
    \/ Main
    \/ Start
    \/ Help
    \/ AskGemini
    \/ HandleGroupMessage
    \/ RollDice
    \/ FlipCoin
    \/ Magic8Ball
    \/ RockPaperScissors
    \/ Trivia
    \/ Unhandled
    \/ NextUpdate

Spec == Init /\ [][Next]_vars

----------------------------------------------------------------------------
(* The handlers step by step.  A handler is a coroutine: it runs without      *)
(* interruption up to an await of reply_text, and goes on when the call       *)
(* returns or raises (generate_content is not awaited: it blocks).  running   *)
(* holds the coroutines begun and not yet returned, each with the await it    *)
(* stands at and the local correct_answer of trivia.                          *)

MaxInFlight == 2    \* updates the Application would give to handlers at once

\* an Application built with concurrent_updates(True)
concurrent_updates_on == TRUE

\* bot.py:239  Application.builder().token(TELEGRAM_TOKEN).build(): the builder's
\* concurrent_updates is left at its default, so the Application awaits the
\* handler of one update before it takes the next from the queue
concurrent_updates == FALSE

\* the Application takes the next update
Dispatchable ==
    /\ pc = "polling"
    /\ Len(running) < MaxInFlight
    /\ concurrent_updates \/ running = <<>>

\* a coroutine of handler for an update of chat c, standing at the await at;
\* correct_answer and question are the locals of trivia
Frame(handler, c, at) ==
    [handler |-> handler, chat |-> c, at |-> at,
     correct_answer |-> <<>>, question |-> <<>>]

Without(seq, k) == SubSeq(seq, 1, k - 1) \o SubSeq(seq, k + 1, Len(seq))

\* the words of a command and the texts of a message, as far as the paths of the
\* handlers tell them apart
StepArgs == {<<>>} \cup {a \in SampleArgs : Len(a) = 1}
StepTexts == {Handle, <<"h","e","l","l","o">>, Handle \o <<" ","h","e","l","l","o">>}

\* bot.py:196-207 and 213-217: up to the first await of trivia
TriviaBegins ==
    /\ Dispatchable
    /\ UNCHANGED <<pc, env, last, calls, error, logged, watched, shown>>
    /\ \E cmd \in Incoming, c \in Chats, args \in StepArgs :
        /\ Route(cmd, c) = "trivia"
        /\ IF AnswerPath(game_state, c, args)
           THEN /\ running' = Append(running,
                        [Frame("trivia", c, "verdict") EXCEPT
                            !.correct_answer = game_state[c].trivia_answer])
                /\ UNCHANGED <<game_state, asked>>
           ELSE \E i \in 1..Len(questions) :
                   LET r == RequestQuestion(game_state, c, i, {}) IN
                   /\ game_state' = r.store
                   /\ asked' = IF c = watched THEN r.calls[1].arg ELSE asked
                   /\ running' = Append(running,
                           [Frame("trivia", c, "question") EXCEPT
                               !.question = r.calls[1].arg])

\* bot.py:205-210: the verdict's reply_text returns, or raises
VerdictReturns ==
    /\ pc = "polling"
    /\ UNCHANGED <<pc, env, last, calls, error, logged, watched, asked, shown>>
    /\ \E k \in 1..Len(running), ok \in BOOLEAN :
        /\ running[k].at = "verdict"
        /\ IF ok /\ Pending(game_state, running[k].chat)
           THEN /\ game_state' = DelAnswer(game_state, running[k].chat)
                /\ running' = [running EXCEPT ![k].at = "reply"]
           ELSE \* the exception, or the KeyError of the del, ends the handler
                /\ running' = Without(running, k)
                /\ UNCHANGED game_state

\* bot.py:217-220: the question's reply_text returns, or raises
QuestionReturns ==
    /\ pc = "polling"
    /\ UNCHANGED <<pc, env, game_state, last, calls, error, logged, watched, asked>>
    /\ \E k \in 1..Len(running), ok \in BOOLEAN :
        /\ running[k].at = "question"
        /\ running' = Without(running, k)
        /\ shown' = IF ok /\ running[k].chat = watched
                    THEN running[k].question ELSE shown

\* bot.py:70-75: up to the first await of ask_gemini, the usage hint or the
\* 'thinking' placeholder
AskBegins ==
    /\ Dispatchable
    /\ UNCHANGED <<pc, env, game_state, last, calls, error, logged, watched, asked, shown>>
    /\ \E cmd \in Incoming, c \in Chats, args \in StepArgs :
        /\ Route(cmd, c) = "ask"
        /\ running' = Append(running,
               Frame("ask", c, IF ask_gemini(args, NoGen, {})
                                    .calls[1].fmt = AskUsage
                               THEN "reply" ELSE "thinking"))

\* bot.py:75-79, 82: the placeholder's reply_text returns, generate_content blocks
\* until it has answered or failed, and the next reply_text is awaited
ThinkingReturns ==
    /\ pc = "polling"
    /\ UNCHANGED <<pc, env, game_state, last, calls, error, logged, watched, asked, shown>>
    /\ \E k \in 1..Len(running), ok \in BOOLEAN :
        /\ running[k].at = "thinking"
        /\ IF ok
           THEN \E gen \in GenOutcomes :
                   running' = [running EXCEPT ![k].at = IF gen.ok THEN "relay" ELSE "reply"]
           ELSE running' = Without(running, k)

\* bot.py:87-112: up to the first await of handle_group_message, if it has one
GroupBegins ==
    /\ Dispatchable
    /\ UNCHANGED <<pc, env, game_state, last, calls, error, logged, watched, asked, shown>>
    /\ \E cmd \in Incoming, c \in Chats, text \in StepTexts, is_reply_to_bot \in BOOLEAN,
          gen \in GenOutcomes :
        LET r == handle_group_message(text, is_reply_to_bot, gen, {}) IN
        /\ Route(cmd, c) = "group"
        /\ running' =
              IF r.calls = <<>> THEN running
              ELSE Append(running,
                     Frame("group", c,
                           IF Generations(r.calls) # <<>> /\ gen.ok THEN "relay" ELSE "reply"))

\* the handlers with one reply_text and nothing else: bot.py:47, 65, 119, 126,
\* 141-145, 153-180
OneReplyBegins ==
    /\ Dispatchable
    /\ UNCHANGED <<pc, env, game_state, last, calls, error, logged, watched, asked, shown>>
    /\ \E cmd \in Incoming, c \in Chats :
        /\ Route(cmd, c) \in {"start", "help", "dice", "flip", "8ball", "rps"}
        /\ running' = Append(running, Frame(Route(cmd, c), c, "reply"))

\* bot.py:79-82, 109-112: the reply_text inside the try block returns, or raises
\* and the except clause awaits its own
RelayReturns ==
    /\ pc = "polling"
    /\ UNCHANGED <<pc, env, game_state, last, calls, error, logged, watched, asked, shown>>
    /\ \E k \in 1..Len(running), ok \in BOOLEAN :
        /\ running[k].at = "relay"
        /\ running' = IF ok THEN Without(running, k)
                      ELSE [running EXCEPT ![k].at = "reply"]

\* the last reply_text of a handler returns or raises: the handler is over
ReplyReturns ==
    /\ pc = "polling"
    /\ UNCHANGED <<pc, env, game_state, last, calls, error, logged, watched, asked, shown>>
    /\ \E k \in 1..Len(running) :
        /\ running[k].at = "reply"
        /\ running' = Without(running, k)

NextSteps ==
    \/ Main
    \/ TriviaBegins
    \/ VerdictReturns
    \/ QuestionReturns
    \/ AskBegins
    \/ ThinkingReturns
    \/ GroupBegins
    \/ OneReplyBegins
    \/ RelayReturns
    \/ ReplyReturns

SpecSteps == Init /\ [][NextSteps]_vars

----------------------------------------------------------------------------
(* The questions of one conversation, any one, recorded as trivia sends them  *)
(* and as the Responder delivers them.  No other handler sends a question or  *)
(* names game_state, so the updates here are those of /trivia.                *)

InitQuestions ==
    /\ pc = "start"
    /\ env \in [{"TELEGRAM_BOT_TOKEN", "GEMINI_API_KEY"} -> BOOLEAN]
    /\ game_state = <<>>
    /\ last = NoUpdate
    /\ calls = <<>>
    /\ error = NoError
    /\ logged = ""
    /\ running = <<>>
    /\ watched \in Chats
    /\ asked = <<>>
    /\ shown = <<>>

NextQuestions ==
    \/ Main
    \/ TriviaBegins
    \/ VerdictReturns
    \/ QuestionReturns
    \/ ReplyReturns

SpecQuestions == InitQuestions /\ [][NextQuestions]_vars

----------------------------------------------------------------------------
(* What the claims speak of, stated without the operators of the handlers. *)

Min(S) == CHOOSE x \in S : \A y \in S : x <= y
Max(S) == CHOOSE x \in S : \A y \in S : x >= y

\* s without its leading and trailing whitespace
Trimmed(s) ==
    LET black == {i \in 1..Len(s) : s[i] \notin Whitespace} IN
    IF black = {} THEN <<>> ELSE SubSeq(s, Min(black), Max(black))

\* s and t are the same text up to the case of their letters
SameIgnoringCase(s, t) ==
    /\ Len(s) = Len(t)
    /\ \A i \in 1..Len(s) :
          \/ s[i] = t[i]
          \/ \E k \in 1..Len(UpperCase) : {s[i], t[i]} = {UpperCase[k], LowerCase[k]}

\* the text a command's words come to
RECURSIVE Words(_)
Words(args) == IF Len(args) <= 1 THEN Flatten(args)
               ELSE Head(args) \o <<" ">> \o Words(Tail(args))

\* a /trivia update has been handled; c is its chat
TriviaHandled == pc = "handled" /\ last.handler = "trivia"
\* the handler took the new-question path: its one reply is a question
AskedQuestion == TriviaHandled /\ Len(calls) = 1 /\ calls[1].fmt = TriviaQuestion
\* the handler gave a verdict on an answer
GaveVerdict == TriviaHandled /\ calls # <<>> /\ calls[1].fmt \in {TriviaCorrect, TriviaWrong}
\* the conversation has no pending question
Idle(store, c) == ~(c \in DOMAIN store /\ "trivia_answer" \in DOMAIN store[c])
\* the catalog entries
Catalog == {questions[i] : i \in 1..Len(questions)}

\* the text mentions the bot: the handle stands somewhere in it
Mentions(text) ==
    \E i \in 0..Len(text) :
        /\ i + Len(Handle) <= Len(text)
        /\ \A k \in 1..Len(Handle) : text[i + k] = Handle[k]

\* the text without the characters of any occurrence of the handle (a handle
\* begins with the only "@" it holds, so no two occurrences overlap)
RECURSIVE Pick(_, _, _)
Pick(s, keep, i) ==
    IF i > Len(s) THEN <<>>
    ELSE (IF i \in keep THEN <<s[i]>> ELSE <<>>) \o Pick(s, keep, i + 1)
WithoutHandle(text) ==
    LET at == {i \in 1..Len(text) : \A k \in 1..Len(Handle) :
                  i + k - 1 <= Len(text) /\ text[i + k - 1] = Handle[k]}
        keep == {i \in 1..Len(text) : ~\E o \in at : o <= i /\ i < o + Len(Handle)}
    IN  Pick(text, keep, 1)

\* an /ask update, a group message has been handled
AskHandled == pc = "handled" /\ last.handler = "ask"
GroupHandled == pc = "handled" /\ last.handler = "group"
\* the Generator was called and failed
GeneratorFailed == \E i \in 1..Len(calls) : calls[i].op = "generate_content" /\ ~calls[i].ok
\* the message is for the bot: it mentions it or replies to it
Addressed == Mentions(last.text) \/ last.reply_to_bot

----------------------------------------------------------------------------
(* The claims. *)

\* C1: a question request for c, whatever the store held before (in particular
\* a question pending from the request before it, and a bare /trivia sent while
\* one is pending), leaves exactly one session for c, holding the answer of
\* the question just drawn; the answer stored before is gone.
C1_SecondQuestionOverwrites ==
    /\ AskedQuestion =>
          /\ last.chat \in DOMAIN game_state
          /\ DOMAIN game_state[last.chat] = {"trivia_answer"}
          /\ \E e \in Catalog :
                /\ calls[1].arg = e.q
                /\ game_state[last.chat].trivia_answer = e.a
    /\ (TriviaHandled /\ last.args = <<>>) => AskedQuestion

\* a bare /trivia while a different answer was pending: the second answer replaced it
C1_Witness ==
    /\ AskedQuestion
    /\ last.args = <<>>
    /\ ~Idle(last.store0, last.chat)
    /\ last.store0[last.chat].trivia_answer # game_state[last.chat].trivia_answer

\* C2: when c has a pending question and a /trivia with argument text has been
\* handled to its end, c has no pending question, whether the answer matched or not.
C2_AnswerEndsSession ==
    (/\ TriviaHandled
     /\ ~Idle(last.store0, last.chat)
     /\ last.args # <<>>
     /\ error = NoError)
    => /\ Idle(game_state, last.chat)
       /\ GaveVerdict

\* a wrong answer was handled, and the session is gone all the same
C2_Witness ==
    /\ TriviaHandled
    /\ ~Idle(last.store0, last.chat)
    /\ last.args # <<>>
    /\ error = NoError
    /\ calls[1].fmt = TriviaWrong
    /\ Idle(game_state, last.chat)

\* C3 as stated: a /trivia with argument text for a conversation without a
\* pending question creates no session.
C3_IdleAnswerCreatesNothing ==
    (TriviaHandled /\ Idle(last.store0, last.chat) /\ last.args # <<>>)
    => Idle(game_state, last.chat)

\* C3, amended: a /trivia with argument text for a conversation without a pending
\* question is handled as a question request: no verdict is given on the text,
\* a question is sent and its answer is stored for the conversation.
C3_IdleAnswerRequestsQuestion ==
    (TriviaHandled /\ Idle(last.store0, last.chat) /\ last.args # <<>>)
    => /\ AskedQuestion
       /\ ~GaveVerdict
       /\ ~Idle(game_state, last.chat)
       /\ \E e \in Catalog :
             calls[1].arg = e.q /\ game_state[last.chat].trivia_answer = e.a

C3_Witness ==
    /\ TriviaHandled
    /\ Idle(last.store0, last.chat)
    /\ last.args # <<>>
    /\ AskedQuestion
    /\ ~Idle(game_state, last.chat)

\* C4: with answer A pending for c and text T submitted, the verdict is 'correct'
\* exactly when T, trimmed, is A up to the case of letters; otherwise it is
\* 'wrong' and shows A.
C4_VerdictIsCaseInsensitiveMatch ==
    (TriviaHandled /\ ~Idle(last.store0, last.chat) /\ last.args # <<>>)
    => LET A == last.store0[last.chat].trivia_answer
           T == Words(last.args)
       IN  /\ calls # <<>>
           /\ calls[1].op = "reply_text"
           /\ IF SameIgnoringCase(Trimmed(T), A)
              THEN calls[1].fmt = TriviaCorrect
              ELSE calls[1].fmt = TriviaWrong /\ calls[1].arg = A

\* "leonardo DA vinci" is accepted for "Leonardo da Vinci"
C4_Witness ==
    /\ TriviaHandled
    /\ ~Idle(last.store0, last.chat)
    /\ Len(last.args) = 3
    /\ last.store0[last.chat].trivia_answer # Words(last.args)
    /\ calls[1].fmt = TriviaCorrect

\* C5 as stated: when the Generator fails during /ask with a question, the
\* handler makes exactly one Responder call, which carries the error indicator,
\* and the failure does not leave the handler.
C5_OneReplyOnGeneratorFailure ==
    (AskHandled /\ last.args # <<>> /\ GeneratorFailed)
    => /\ Len(Replies(calls)) = 1
       /\ Replies(calls)[1].fmt = AskError
       /\ error # "GeneratorError"

\* C5, amended: when the Generator fails during /ask with a question, the handler
\* makes exactly two Responder calls: the 'thinking' placeholder before the
\* Generator call and, after it, one call that carries the error indicator and
\* the error's description; the Generator's failure does not leave the handler
\* (only a failure of that last Responder call can), and the next update is taken.
C5_PlaceholderThenErrorReply ==
    (AskHandled /\ last.args # <<>> /\ GeneratorFailed)
    => /\ Len(calls) = 3
       /\ calls[1].op = "reply_text" /\ calls[1].fmt = AskThinking /\ calls[1].ok
       /\ calls[2].op = "generate_content"
       /\ calls[3].op = "reply_text" /\ calls[3].fmt = AskError
       /\ calls[3].arg = last.gen.text
       /\ error = (IF calls[3].ok THEN NoError ELSE "TelegramError")
       /\ ENABLED NextUpdate

C5_Witness ==
    /\ AskHandled
    /\ last.args # <<>>
    /\ GeneratorFailed
    /\ Len(Replies(calls)) = 2
    /\ error = NoError

\* C6: /ask without argument text makes exactly one Responder call, the usage
\* hint, and no Generator call.
C6_BareAskIsUsageHint ==
    (AskHandled /\ last.args = <<>>)
    => /\ Len(calls) = 1
       /\ calls[1].op = "reply_text"
       /\ calls[1].fmt = AskUsage
       /\ Generations(calls) = <<>>

C6_Witness ==
    /\ AskHandled
    /\ last.args = <<>>
    /\ Len(Replies(calls)) = 1
    /\ calls[1].ok

\* C7: a group message that neither mentions the bot nor replies to one of its
\* messages gets no Responder call and no Generator call; so a Generator call
\* for a group message means the message mentioned the bot or replied to it.
C7_UnaddressedGroupMessageDropped ==
    /\ (GroupHandled /\ ~Addressed) => calls = <<>>
    /\ (GroupHandled /\ Generations(calls) # <<>>) => Addressed

\* a message with a mention of somebody else was dropped
C7_Witness ==
    /\ GroupHandled
    /\ ~Addressed
    /\ \E i \in 1..Len(last.text) : last.text[i] = "@"
    /\ calls = <<>>

\* C8: a group message for the bot whose text, without the handle and trimmed,
\* is not empty makes exactly one Generator call, with that text as the prompt:
\* "hello" for "@bot hello", the trimmed text for a reply without a mention.
C8_PromptIsStrippedText ==
    (GroupHandled /\ Addressed /\ Trimmed(WithoutHandle(last.text)) # <<>>)
    => /\ Len(Generations(calls)) = 1
       /\ calls[1].op = "generate_content"
       /\ calls[1].arg = Trimmed(WithoutHandle(last.text))
       /\ (last.text = Handle \o <<" ","h","e","l","l","o">>)
             => calls[1].arg = <<"h","e","l","l","o">>
       /\ ~Mentions(last.text) => calls[1].arg = Trimmed(last.text)

\* a mention between two words, with whitespace around: both are removed
C8_Witness ==
    /\ GroupHandled
    /\ Mentions(last.text)
    /\ ~last.reply_to_bot
    /\ Len(Generations(calls)) = 1
    /\ Len(calls[1].arg) + Len(Handle) < Len(last.text)

\* C9: a group message for the bot whose text, without the handle and trimmed, is
\* empty makes exactly one Responder call, "Yes? How can I help you?", and no
\* Generator call.
C9_EmptyTextGetsCannedPrompt ==
    (GroupHandled /\ Addressed /\ Trimmed(WithoutHandle(last.text)) = <<>>)
    => /\ Len(calls) = 1
       /\ calls[1].op = "reply_text"
       /\ calls[1].fmt = GroupCanned
       /\ calls[1].arg = <<>>
       /\ Generations(calls) = <<>>

\* a message holding nothing but mentions and whitespace
C9_Witness ==
    /\ GroupHandled
    /\ Mentions(last.text)
    /\ Len(last.text) > Len(Handle)
    /\ Len(calls) = 1
    /\ calls[1].fmt = GroupCanned

\* C10: /ask with a question makes the 'thinking' Responder call, then exactly
\* one Generator call with the words joined by spaces, then exactly one more
\* Responder call: the Generator's text as it is, or the error message.
C10_ThinkingGenerateRelay ==
    (AskHandled /\ last.args # <<>>)
    => /\ Len(calls) = 3
       /\ calls[1].op = "reply_text" /\ calls[1].fmt = AskThinking
       /\ calls[2].op = "generate_content" /\ calls[2].arg = Words(last.args)
       /\ calls[3].op = "reply_text"
       /\ calls[3].arg = last.gen.text
       /\ calls[3].fmt = (IF calls[2].ok THEN Verbatim ELSE AskError)

\* C11: handling an update of any kind calls the Generator at most once, whatever
\* the Generator answers; when the call fails, in /ask and in a group message
\* alike, the handler's next and last call is the Responder call that carries
\* that handler's error indicator and the failure's description, and the
\* Generator's failure is not what reaches the error handler.
C11_NoRetryFailureCaught ==
    pc = "handled"
    => /\ Len(Generations(calls)) <= 1
       /\ error # "GeneratorError"
       /\ GeneratorFailed
          => /\ last.handler \in {"ask", "group"}
             /\ calls[Len(calls) - 1].op = "generate_content"
             /\ calls[Len(calls)].op = "reply_text"
             /\ calls[Len(calls)].fmt =
                    (IF last.handler = "ask" THEN AskError ELSE GroupError)
             /\ calls[Len(calls)].arg = last.gen.text

\* a group message whose Generator call failed and whose error reply went out
C11_Witness ==
    /\ GroupHandled
    /\ GeneratorFailed
    /\ Len(Generations(calls)) = 1
    /\ calls[Len(calls)].fmt = GroupError
    /\ calls[Len(calls)].ok
    /\ error = NoError

\* a /rps update has been handled
RpsHandled == pc = "handled" /\ last.handler = "rps"
\* the three hands as they are spelled, and the pairs in which the first beats
\* the second
Spelled == [rock |-> <<"r","o","c","k">>, paper |-> <<"p","a","p","e","r">>,
            scissors |-> <<"s","c","i","s","s","o","r","s">>]
Beats == { <<"rock", "scissors">>, <<"scissors", "paper">>, <<"paper", "rock">> }
\* the hands the first word of the update names, letter case aside
HandsNamed(args) ==
    IF args = <<>> THEN {}
    ELSE {h \in DOMAIN Spelled : SameIgnoringCase(args[1], Spelled[h])}

\* C12: /rps with a first word that names a hand u, in any letter case, against
\* the drawn hand b, answers with one reply that shows u and b and says tie iff
\* u = b, 'You win' iff u beats b (rock scissors, scissors paper, paper rock)
\* and 'I win' in the three cases left; with no word, or a first word that
\* names no hand, the one reply is the usage hint and nothing is drawn.
C12_RpsOutcome ==
    RpsHandled
    => /\ Len(calls) = 1
       /\ calls[1].op = "reply_text"
       /\ IF HandsNamed(last.args) = {}
          THEN calls[1].fmt = RpsUsage /\ calls[1].arg = <<>> /\ last.drawn = 0
          ELSE \E u \in HandsNamed(last.args), b \in DOMAIN Spelled :
                  /\ calls[1].fmt = RpsPlayed
                  /\ last.drawn \in 1..3
                  /\ calls[1].arg[2] = u
                  /\ calls[1].arg[4] = b
                  /\ (calls[1].arg[5] = RpsTie) <=> (u = b)
                  /\ (calls[1].arg[5] = RpsYouWin) <=> (<<u, b>> \in Beats)
                  /\ (calls[1].arg[5] = RpsIWin) <=> (u # b /\ <<b, u>> \in Beats)

\* ROCK in capitals against drawn scissors: the user wins
C12_Witness ==
    /\ RpsHandled
    /\ last.args = << <<"R","O","C","K">> >>
    /\ calls[1].fmt = RpsPlayed
    /\ calls[1].arg[2] = "rock"
    /\ calls[1].arg[4] = "scissors"
    /\ calls[1].arg[5] = RpsYouWin

\* C13: when the environment lacks the bot token or the Generator's key, main
\* logs the configuration error of the secret it misses first and returns: the
\* process never polls, so no update is ever handled, no collaborator is called
\* and the store stays empty.
C13_StartupGuard ==
    (~env.TELEGRAM_BOT_TOKEN \/ ~env.GEMINI_API_KEY)
    => /\ pc \in {"start", "exited"}
       /\ last = NoUpdate
       /\ calls = <<>>
       /\ game_state = <<>>
       /\ pc = "exited"
          => logged = (IF ~env.TELEGRAM_BOT_TOKEN THEN TokenMissing ELSE KeyMissing)

\* main has returned for want of the Generator's key, the token being there
C13_Witness ==
    /\ pc = "exited"
    /\ env.TELEGRAM_BOT_TOKEN
    /\ ~env.GEMINI_API_KEY
    /\ logged = KeyMissing

\* C15: when c has a pending question and a /trivia with argument text is
\* handled, c has no pending question afterwards, whatever becomes of the
\* Responder calls: also when the delivery of the verdict fails.
C15_IdleThoughVerdictFails ==
    (/\ TriviaHandled
     /\ ~Idle(last.store0, last.chat)
     /\ last.args # <<>>)
    => Idle(game_state, last.chat)

\* the store holds the same for conversation d in both
SameSession(s, t, d) ==
    /\ (d \in DOMAIN s) <=> (d \in DOMAIN t)
    /\ d \in DOMAIN s => s[d] = t[d]

\* C16: the handling of a /trivia update of conversation c leaves what the store
\* holds for every other conversation as it was; the handling of any other
\* update (/start, /help, /ask, /dice, /flip, /8ball, /rps, a group message, an
\* update no handler takes) leaves the whole store as it was.
C16_StoreFrame ==
    [][ pc' = "handled"
        => /\ \A d \in Chats :
                 (last'.handler # "trivia" \/ d # last'.chat)
                 => SameSession(game_state, game_state', d)
           /\ last'.handler # "trivia" => game_state' = game_state ]_vars

\* a question went to one conversation while another had one pending, which it
\* still has
C16_Witness ==
    /\ AskedQuestion
    /\ \E d \in Chats \ {last.chat} :
          /\ ~Idle(last.store0, d)
          /\ ~Idle(game_state, d)
          /\ game_state[d] = last.store0[d]
    /\ \/ last.chat \notin DOMAIN last.store0
       \/ game_state[last.chat] # last.store0[last.chat]

\* the callback main registers for each command
OwnHandler == [start |-> "start", help |-> "help", ask |-> "ask", dice |-> "dice",
               flip |-> "flip", rps |-> "rps", trivia |-> "trivia"]
               @@ ("8ball" :> "8ball")

\* C18: each of the eight commands is handled by its own handler and by no
\* other, in a private chat and in a group alike; an update that is a command
\* never reaches the group-message handler, whose Generator path is the only
\* one for free text; free text in a private chat, like a command nobody
\* registered, is taken by no handler: no Responder call, no Generator call,
\* and the store is left alone.  One update is given to at most one handler.
C18_OneHandlerPerUpdate ==
    pc = "handled"
    => /\ Cardinality({i \in 1..Len(handlers) :
                          Matches(handlers[i], last.command, last.chat)}) <= 1
       /\ last.command \in DOMAIN OwnHandler
          => last.handler = OwnHandler[last.command]
       /\ last.command # FreeText => last.handler # "group"
       /\ (last.command = FreeText /\ ChatType(last.chat) = "private")
          => /\ last.handler = "none"
             /\ calls = <<>>
             /\ error = NoError
             /\ game_state = last.store0
       /\ last.handler = "none" => calls = <<>>

\* free text in the private chat, dropped
C18_Witness ==
    /\ pc = "handled"
    /\ last.command = FreeText
    /\ last.text # <<>>
    /\ ChatType(last.chat) = "private"
    /\ last.handler = "none"
    /\ calls = <<>>

\* C14: at most one handler has begun and not yet returned: while a handler
\* stands at an await, or generate_content blocks, no handler of a later update
\* begins.  So between the pending check of trivia and its del the session of
\* that conversation is the one the check found, and a session just written is
\* as it was written while its question is on the way.
C14_OneHandlerAtATime ==
    /\ Len(running) <= 1
    /\ \A k \in 1..Len(running) :
          /\ running[k].at = "verdict"
             => /\ ~Idle(game_state, running[k].chat)
                /\ game_state[running[k].chat].trivia_answer = running[k].correct_answer
          /\ running[k].at = "question"
             => /\ ~Idle(game_state, running[k].chat)
                /\ \E e \in Catalog :
                      /\ e.q = running[k].question
                      /\ e.a = game_state[running[k].chat].trivia_answer

\* trivia stands between its pending check and its del, alone
C14_Witness ==
    /\ Len(running) = 1
    /\ running[1].handler = "trivia"
    /\ running[1].at = "verdict"
    /\ ~Idle(game_state, running[1].chat)

\* every stored answer is the answer of a catalog entry
AnswersFromCatalog ==
    \A c \in Chats :
        ~Idle(game_state, c) => \E e \in Catalog : e.a = game_state[c].trivia_answer

\* C17 as stated: when no handler is under way, the answer stored for a
\* conversation is a catalog answer, and it is the answer of the question that
\* was last displayed to the conversation, that is, delivered by the Responder.
C17_AnswerOfQuestionDisplayed ==
    /\ AnswersFromCatalog
    /\ (running = <<>> /\ ~Idle(game_state, watched))
       => \E e \in Catalog : e.q = shown /\ e.a = game_state[watched].trivia_answer

\* C17, amended: in every state the answer stored for a conversation is a catalog
\* answer, and it is the answer of the question last given to the Responder for
\* the conversation, whether the Responder delivered it or not: question and
\* stored answer come from one catalog entry.
C17_AnswerOfQuestionSent ==
    /\ AnswersFromCatalog
    /\ ~Idle(game_state, watched)
       => \E e \in Catalog : e.q = asked /\ e.a = game_state[watched].trivia_answer

\* a question was delivered, then another was sent and lost: its answer is the
\* one stored
C17_Witness ==
    /\ running = <<>>
    /\ ~Idle(game_state, watched)
    /\ shown # <<>>
    /\ asked # shown
    /\ \E e \in Catalog : e.q = asked /\ e.a = game_state[watched].trivia_answer

====
